---- MODULE Spec2Model ----
(***************************************************************************)
(* Model of convert_gdu.py: the streaming tree-to-row transducer           *)
(* stream_nodes, driven by the event stream of ijson.basic_parse.          *)
(*                                                                         *)
(* Python strings are sequences of one-character strings, so that path     *)
(* construction is computed and not assumed.  A Python scalar taken from   *)
(* the JSON document is a record [k, s, n]: k is its type, s its text when *)
(* it is a str, n its number when it is a number or a boolean.             *)
(***************************************************************************)
EXTENDS Integers, Sequences, FiniteSets, TLC

\* ---------------------------------------------------------------- bounds
MaxEvents == 16      \* events of one document
MaxDepth == 3        \* open containers at any time
MaxKeys == 1         \* key/value pairs of one object
MaxItems == 3        \* elements of one array
MaxMetaEvents == 10  \* events of one document, metadata input class
MaxWrapEvents == 18  \* events of one document, wrapper input class
MaxRows == 5         \* rows handed to write_batched_parquet
MaxBatch == 2        \* rows of one batch

\* BATCH_SIZE is 100_000 in the source; the model scales it to MaxBatch
BATCH_SIZE == MaxBatch

\* ---------------------------------------------------------------- values
Str(s) == [k |-> "str", s |-> s, n |-> 0]
Num(n) == [k |-> "num", s |-> <<>>, n |-> n]
Bool(b) == [k |-> "bool", s |-> <<>>, n |-> IF b THEN 1 ELSE 0]
Null == [k |-> "null", s |-> <<>>, n |-> 0]

Sep == "/"
NoKey == "<None>"
None == 0

Last(s) == s[Len(s)]
Pop(s) == SubSeq(s, 1, Len(s) - 1)

\* Python truthiness of a scalar
Truthy(v) ==
  CASE v.k = "str" -> v.s # <<>>
    [] v.k = "num" -> v.n # 0
    [] v.k = "bool" -> v.n = 1
    [] OTHER -> FALSE

\* ---------------------------------------------------------------- paths
\* variant: the separator is always inserted
JoinAlwaysSep(a, b) == a \o <<Sep>> \o b

\* posixpath.join(a, b) for two str
PosixJoin(a, b) ==
  IF b # <<>> /\ b[1] = Sep THEN b
  ELSE IF a = <<>> \/ Last(a) = Sep THEN a \o b
  ELSE a \o <<Sep>> \o b

\* _build_path raises TypeError (os.path.join) or AttributeError
\* (startswith) when name is not a str
BuildPathRaises(parent_path, name) ==
  name.k # "str" /\ (parent_path # <<>> \/ Truthy(name))

_build_path(parent_path, name) ==
  LET current_path == IF parent_path # <<>> THEN PosixJoin(parent_path, name.s)
                      ELSE IF Truthy(name) THEN name.s ELSE <<Sep>>
  IN IF current_path = <<>> \/ current_path[1] # Sep
     THEN <<Sep>> \o current_path ELSE current_path

\* ---------------------------------------------------------------- int()
Digits == <<"0", "1", "2", "3", "4", "5", "6", "7", "8", "9">>
IsDigit(c) == \E d \in 1..10 : Digits[d] = c
DigitVal(c) == (CHOOSE d \in 1..10 : Digits[d] = c) - 1

RECURSIVE DigitsVal(_)
DigitsVal(s) ==
  IF s = <<>> THEN 0 ELSE 10 * DigitsVal(Pop(s)) + DigitVal(Last(s))

IsIntLiteral(s) ==
  LET body == IF s # <<>> /\ s[1] \in {"-", "+"} THEN Tail(s) ELSE s
  IN body # <<>> /\ \A i \in 1..Len(body) : IsDigit(body[i])

IntOfStr(s) ==
  IF s[1] = "-" THEN 0 - DigitsVal(Tail(s))
  ELSE IF s[1] = "+" THEN DigitsVal(Tail(s))
  ELSE DigitsVal(s)

_coerce_int(value) ==
  CASE value.k = "null" -> 0
    [] value.k = "num" -> value.n
    [] value.k = "bool" -> value.n
    [] OTHER -> IF IsIntLiteral(value.s) THEN IntOfStr(value.s) ELSE 0

\* ---------------------------------------------------------------- rows
\* info.get(key, default) on the dict of an object context
Get(info, key, default) == IF key \in DOMAIN info THEN info[key] ELSE default

\* an Optional[DirFrame] is <<>> (None) or <<frame>>
ParentPath(parent) == IF parent # <<>> THEN parent[1].path ELSE <<>>
\* variant: the child gets the depth of its parent
ParentDepthSame(parent) == IF parent # <<>> THEN parent[1].depth ELSE 0

ParentDepth(parent) == IF parent # <<>> THEN parent[1].depth + 1 ELSE 0

DirFrameName(info) ==
  LET n == Get(info, "name", Str(<<>>)) IN IF Truthy(n) THEN n ELSE Str(<<>>)

MakeDirFrameRaises(info, parent) ==
  BuildPathRaises(ParentPath(parent), DirFrameName(info))

\* variant: the frame's parent field is set from its own path
MakeDirFrameSelfParent(info, parent) ==
  LET name == DirFrameName(info)
  IN [name |-> IF Truthy(name) THEN name ELSE Str(<<Sep>>),
      path |-> _build_path(ParentPath(parent), name),
      parent |-> _build_path(ParentPath(parent), name),
      depth |-> ParentDepth(parent),
      size |-> _coerce_int(Num(Get(info, "asize", 0))),
      usage |-> _coerce_int(Num(Get(info, "dsize", 0))),
      item_count |-> 0]

_make_dir_frame(info, parent) ==
  LET name == DirFrameName(info)
  IN [name |-> IF Truthy(name) THEN name ELSE Str(<<Sep>>),
      path |-> _build_path(ParentPath(parent), name),
      parent |-> ParentPath(parent),
      depth |-> ParentDepth(parent),
      size |-> _coerce_int(Num(Get(info, "asize", 0))),
      usage |-> _coerce_int(Num(Get(info, "dsize", 0))),
      item_count |-> 0]

FileName(info) ==
  LET n == Get(info, "name", Str(<<>>)) IN IF n.k = "null" THEN Str(<<>>) ELSE n

\* variant: only an absent name is skipped
FileRowSkippedIfAbsent(info) == "name" \notin DOMAIN info

\* if name == "": return None
FileRowSkipped(info) == FileName(info) = Str(<<>>)

MakeFileRowRaises(info, parent) ==
  ~FileRowSkipped(info) /\ BuildPathRaises(ParentPath(parent), FileName(info))

\* the Optional[dict] result is <<>> (None) or <<row>>
_make_file_row(info, parent) ==
  IF FileRowSkipped(info) THEN <<>>
  ELSE <<[path |-> _build_path(ParentPath(parent), FileName(info)),
          name |-> FileName(info),
          parent |-> ParentPath(parent),
          depth |-> ParentDepth(parent),
          size |-> _coerce_int(Num(Get(info, "asize", 0))),
          usage |-> _coerce_int(Num(Get(info, "dsize", 0))),
          is_dir |-> FALSE,
          item_count |-> 0]>>

\* variant: size and usage are taken from each other's field
DirFrameToRowSwapped(frame) ==
  [path |-> frame.path,
   name |-> IF Truthy(frame.name) THEN frame.name ELSE Str(<<Sep>>),
   parent |-> frame.parent,
   depth |-> frame.depth,
   size |-> frame.usage,
   usage |-> frame.size,
   is_dir |-> TRUE,
   item_count |-> frame.item_count]

_dir_frame_to_row(frame) ==
  [path |-> frame.path,
   name |-> IF Truthy(frame.name) THEN frame.name ELSE Str(<<Sep>>),
   parent |-> frame.parent,
   depth |-> frame.depth,
   size |-> frame.size,
   usage |-> frame.usage,
   is_dir |-> TRUE,
   item_count |-> frame.item_count]

\* ---------------------------------------------------------------- state
VARIABLES
  pc,               \* "running", "done" (stream exhausted), "failed" (the
                    \* token source raised), "raised" (stream_nodes raised)
  container_stack,  \* list of {"type", "ctx"} entries
  dir_stack,        \* list of DirFrame references (ids into frames)
  frames,           \* the DirFrame objects ever allocated, by id
  out,              \* the rows yielded so far, in order
  emitLog,          \* for each yielded row: the event that yielded it
  istack,           \* token source: the JSON containers now open
  doc,              \* token source: <<>> or <<the completed document>>
  nev,              \* number of events delivered by the token source
  class,            \* input class the document is drawn from
  wpc,              \* write_batched_parquet: "loop", "returned", "aborted"
  writer,           \* "None", "open" or "closed"
  batch,            \* the rows of the batch in memory
  total_rows,       \* rows consumed so far; the value returned
  consumed,         \* position of the writer in the row sequence
  file              \* the output storage: times opened, times closed,
                    \* tables written

wvars == <<wpc, writer, batch, total_rows, consumed, file>>

vars == <<pc, container_stack, dir_stack, frames, out, emitLog, istack, doc,
          nev, class, wpc, writer, batch, total_rows, consumed, file>>

\* ---------------------------------------------------------------- inputs
\* a JSON value of the document: scalar, array of values, object of pairs
JV(t, items, sv) == [t |-> t, items |-> items, sv |-> sv]

\* the events the token source delivers for a value
RECURSIVE Events(_)
Events(v) ==
  LET RECURSIVE Items(_)
      Items(i) == IF i = 0 THEN <<>> ELSE Items(i - 1) \o Events(v.items[i])
      RECURSIVE Pairs(_)
      Pairs(i) ==
        IF i = 0 THEN <<>>
        ELSE Pairs(i - 1)
             \o <<[ev |-> "map_key", key |-> v.items[i].k, sv |-> Null]>>
             \o Events(v.items[i].v)
  IN IF v.t = "s" THEN <<[ev |-> "scalar", key |-> NoKey, sv |-> v.sv]>>
     ELSE IF v.t = "a"
     THEN <<[ev |-> "start_array", key |-> NoKey, sv |-> Null]>>
          \o Items(Len(v.items))
          \o <<[ev |-> "end_array", key |-> NoKey, sv |-> Null]>>
     ELSE <<[ev |-> "start_map", key |-> NoKey, sv |-> Null]>>
          \o Pairs(Len(v.items))
          \o <<[ev |-> "end_map", key |-> NoKey, sv |-> Null]>>

\* the document of end-to-end scenario 1:
\* [1,{},[{root,100,50},{a.txt,10,10},[{sub,20,20},{b.txt,20,20}]]]
Entry(name, asize, dsize) ==
  JV("o", <<[k |-> "name", v |-> JV("s", <<>>, Str(name))],
            [k |-> "asize", v |-> JV("s", <<>>, Num(asize))],
            [k |-> "dsize", v |-> JV("s", <<>>, Num(dsize))]>>, Null)

NameRoot == <<"r", "o", "o", "t">>
NameA == <<"a", ".", "t", "x", "t">>
NameSub == <<"s", "u", "b">>
NameB == <<"b", ".", "t", "x", "t">>

Scenario1Doc ==
  JV("a", <<JV("s", <<>>, Num(1)),
            JV("o", <<>>, Null),
            JV("a", <<Entry(NameRoot, 100, 50),
                      Entry(NameA, 10, 10),
                      JV("a", <<Entry(NameSub, 20, 20),
                                Entry(NameB, 20, 20)>>, Null)>>, Null)>>, Null)

Script == Events(Scenario1Doc)

\* in the scenario class the token source delivers the events of the
\* scenario document, with any of UsageVals under dsize
UsageVals == {Num(10), Num(20), Num(50)}
Scripted(ev) ==
  class = "scenario" => (nev < Len(Script) /\ Script[nev + 1].ev = ev)

Keys == IF class = "tree" THEN {"name", "asize", "x"}
        ELSE IF class = "meta" THEN {"name", "asize", "dsize"}
        ELSE IF class = "wrap" THEN {"name"}
        ELSE IF nev < Len(Script) THEN {Script[nev + 1].key} ELSE {}

NameVals == IF class = "tree" THEN {Str(<<>>), Str(<<"a">>), Str(<<"b">>), Null}
            ELSE IF class = "wrap" THEN {Str(<<"a">>)}
            ELSE {Str(<<"a">>), Null, Num(5), Bool(FALSE), Bool(TRUE)}

SizeVals == IF class = "tree" THEN {Num(1)}
            ELSE {Num(2), Str(<<"1", "2">>), Str(<<"a", "b", "c">>), Null}

EventBudget == IF class = "tree" THEN MaxEvents
               ELSE IF class = "meta" THEN MaxMetaEvents
               ELSE IF class = "wrap" THEN MaxWrapEvents
               ELSE Len(Script)

\* open containers and array elements: the scenario class is bounded by
\* its script
DepthLimit == IF class = "scenario" THEN Len(Script)
              ELSE IF class = "wrap" THEN MaxDepth + 1
              ELSE MaxDepth
ItemLimit == IF class = "scenario" THEN Len(Script)
             ELSE IF class = "wrap" THEN MaxItems - 1
             ELSE MaxItems

\* key/value pairs of one object: the metadata class needs name, asize and
\* dsize together
KeyLimit == IF class = "meta" THEN MaxKeys + 2
            ELSE IF class = "scenario" THEN Len(Script)
            ELSE MaxKeys

\* the scalars the token source may deliver at the current position
ScalarVals ==
  IF class = "scenario"
  THEN IF nev >= Len(Script) THEN {}
       ELSE IF istack # <<>> /\ Last(istack).pkey = "dsize" THEN UsageVals
       ELSE {Script[nev + 1].sv}
  ELSE IF istack # <<>> /\ Last(istack).t = "o"
  THEN IF Last(istack).pkey = "name" THEN NameVals
       ELSE IF Last(istack).pkey \in {"asize", "dsize"} THEN SizeVals
       ELSE {Num(1)}
  ELSE {Num(1)}

\* the token source is positioned where a value may start
ExpectValue ==
  /\ doc = <<>>
  /\ IF istack = <<>> THEN TRUE
     ELSE IF Last(istack).t = "a" THEN Len(Last(istack).items) < ItemLimit
     ELSE Last(istack).pkey # NoKey

\* the value v is complete: it becomes the document, an array element or
\* the value of the pending key
Complete(stk, v) ==
  IF stk = <<>> THEN stk
  ELSE IF Last(stk).t = "a"
       THEN [stk EXCEPT ![Len(stk)].items = Append(@, v)]
       ELSE [stk EXCEPT ![Len(stk)].items = Append(@, [k |-> Last(stk).pkey, v |-> v]),
                        ![Len(stk)].pkey = NoKey]

\* events still needed to close the document
Need(stk) ==
  Len(stk) + (IF stk # <<>> /\ Last(stk).t = "o" /\ Last(stk).pkey # NoKey
              THEN 1 ELSE 0)

Fits(stk) == nev + 1 + Need(stk) <= EventBudget /\ Len(stk) <= DepthLimit

\* write_batched_parquet before its loop
InitWriterState ==
  /\ wpc = "loop"
  /\ writer = "None"
  /\ batch = <<>>
  /\ total_rows = 0
  /\ consumed = 0
  /\ file = [opens |-> 0, closes |-> 0, tables |-> <<>>]

InitState ==
  /\ InitWriterState
  /\ pc = "running"
  /\ container_stack = <<>>
  /\ dir_stack = <<>>
  /\ frames = <<>>
  /\ out = <<>>
  /\ emitLog = <<>>
  /\ istack = <<>>
  /\ doc = <<>>
  /\ nev = 0

Init == InitState /\ class = "tree"
InitMeta == InitState /\ class = "meta"
InitScenario == InitState /\ class = "scenario"
InitWrap == InitState /\ class = "wrap"

\* ---------------------------------------------------------------- handlers
NewArray == [type |-> "array",
             ctx |-> [type |-> "unknown", index |-> 0, frame |-> None]]
NewObject == [type |-> "object", ctx |-> [data |-> <<>>, key |-> NoKey]]

\* dir_stack[-1] if dir_stack else None
TopFrame(ds, frs) == IF ds # <<>> THEN <<frs[Last(ds)]>> ELSE <<>>

\* variant: the index of the enclosing array is not advanced
BumpIndexNever(cs) == cs

\* container_stack[-1]["ctx"]["index"] += 1 when the top is an array
BumpIndex(cs) ==
  IF cs # <<>> /\ Last(cs).type = "array"
  THEN [cs EXCEPT ![Len(cs)].ctx.index = @ + 1]
  ELSE cs

\* end_array: does the closed array yield a directory row
EndArrayEmits(arr_ctx) == arr_ctx.type = "dir" /\ arr_ctx.frame # None

\* variant: the directory row is yielded twice
EndArrayRowsTwice(arr_ctx, frs) ==
  IF arr_ctx.type = "dir" /\ arr_ctx.frame # None
  THEN <<_dir_frame_to_row(frs[arr_ctx.frame]), _dir_frame_to_row(frs[arr_ctx.frame])>>
  ELSE <<>>

\* end_array: the rows yielded for the closed array
EndArrayRows(arr_ctx, frs) ==
  IF EndArrayEmits(arr_ctx) THEN <<_dir_frame_to_row(frs[arr_ctx.frame])>>
  ELSE <<>>

\* variant: the closed frame is left on dir_stack
PopDirNever(ds, fid) == ds

\* end_array: if dir_stack and dir_stack[-1] is frame: dir_stack.pop()
PopDir(ds, fid) == IF ds # <<>> /\ Last(ds) = fid THEN Pop(ds) ELSE ds

\* variant: the fold runs on the closed frame itself
FoldIntoSelf(frs, ds, fid) ==
  [frs EXCEPT ![fid].item_count = @ + frs[fid].item_count]

\* variant: a closed subdirectory counts as one item of its parent
FoldOne(frs, ds, fid) ==
  IF ds # <<>>
  THEN [frs EXCEPT ![Last(ds)].item_count = @ + 1]
  ELSE frs

\* end_array: if dir_stack: dir_stack[-1].item_count += frame.item_count
FoldItemCount(frs, ds, fid) ==
  IF ds # <<>>
  THEN [frs EXCEPT ![Last(ds)].item_count = @ + frs[fid].item_count]
  ELSE frs

\* scalar inside an object: what the object context records
RecordScalar(ctx, value) ==
  IF ctx.key = "name" THEN [ctx EXCEPT !.data = ("name" :> value) @@ @]
  ELSE IF ctx.key \in {"asize", "dsize"}
       THEN [ctx EXCEPT !.data = (ctx.key :> _coerce_int(value)) @@ @]
       ELSE ctx

\* scalar inside an array: classification and index
ScalarInArray(arr_ctx) ==
  [arr_ctx EXCEPT
     !.type = IF arr_ctx.type = "unknown" /\ arr_ctx.index = 0 THEN "top" ELSE @,
     !.index = @ + 1]

\* variant: an unknown array is classified by any object, not only its first
\* element
ClassifyAnyIndex(arr_ctx, data) ==
  IF arr_ctx.type = "unknown"
  THEN IF DOMAIN data # {} THEN "dir" ELSE "top"
  ELSE arr_ctx.type

\* end_map: classification of the enclosing array by the closed object
Classify(arr_ctx, data) ==
  IF arr_ctx.type = "unknown" /\ arr_ctx.index = 0
  THEN IF DOMAIN data # {} THEN "dir" ELSE "top"
  ELSE arr_ctx.type

\* end_map: is the closed object the metadata head of its directory array
IsHead(arr_ctx) == arr_ctx.index = 0 /\ arr_ctx.frame = None

\* end_map: rows yielded when a metadata head closes (none: the frame is
\* only pushed)
EndMapHeadRows(frame) == <<>>

\* variant: a yielded file row is not counted
CountFileNever(frs, ds) == frs

\* end_map: dir_stack[-1].item_count += 1 after a file row was yielded
CountFile(frs, ds) ==
  IF ds # <<>> THEN [frs EXCEPT ![Last(ds)].item_count = @ + 1] ELSE frs

\* ---------------------------------------------------------------- actions
Log(ev, rows, fid) ==
  emitLog \o [i \in 1..Len(rows) |-> [n |-> nev + 1, ev |-> ev, fid |-> fid]]

StartArray ==
  /\ pc = "running" /\ ExpectValue /\ Scripted("start_array")
  /\ UNCHANGED wvars
  /\ LET stk == Append(istack, [t |-> "a", items |-> <<>>, pkey |-> NoKey])
     IN /\ Fits(stk)
        /\ istack' = stk
  /\ container_stack' = Append(container_stack, NewArray)
  /\ nev' = nev + 1
  /\ UNCHANGED <<pc, dir_stack, frames, out, emitLog, doc, class>>

StartMap ==
  /\ pc = "running" /\ ExpectValue /\ Scripted("start_map")
  /\ UNCHANGED wvars
  /\ LET stk == Append(istack, [t |-> "o", items |-> <<>>, pkey |-> NoKey])
     IN /\ Fits(stk)
        /\ istack' = stk
  /\ container_stack' = Append(container_stack, NewObject)
  /\ nev' = nev + 1
  /\ UNCHANGED <<pc, dir_stack, frames, out, emitLog, doc, class>>

MapKey ==
  /\ pc = "running" /\ Scripted("map_key")
  /\ UNCHANGED wvars
  /\ istack # <<>> /\ Last(istack).t = "o" /\ Last(istack).pkey = NoKey
  /\ Len(Last(istack).items) < KeyLimit
  /\ \E value \in Keys :
       LET stk == [istack EXCEPT ![Len(istack)].pkey = value]
       IN /\ Fits(stk)
          /\ istack' = stk
          /\ container_stack' =
               [container_stack EXCEPT ![Len(container_stack)].ctx.key = value]
  /\ nev' = nev + 1
  /\ UNCHANGED <<pc, dir_stack, frames, out, emitLog, doc, class>>

Scalar ==
  /\ pc = "running" /\ ExpectValue /\ Scripted("scalar")
  /\ UNCHANGED wvars
  /\ \E value \in ScalarVals :
       LET stk == Complete(istack, JV("s", <<>>, value))
       IN /\ Fits(stk)
          /\ istack' = stk
          /\ doc' = IF istack = <<>> THEN <<JV("s", <<>>, value)>> ELSE doc
          /\ container_stack' =
               IF container_stack = <<>> THEN container_stack
               ELSE IF Last(container_stack).type = "object"
               THEN [container_stack EXCEPT
                       ![Len(container_stack)].ctx = RecordScalar(@, value)]
               ELSE [container_stack EXCEPT
                       ![Len(container_stack)].ctx = ScalarInArray(@)]
  /\ nev' = nev + 1
  /\ UNCHANGED <<pc, dir_stack, frames, out, emitLog, class>>

EndArray ==
  /\ pc = "running" /\ Scripted("end_array")
  /\ UNCHANGED wvars
  /\ istack # <<>> /\ Last(istack).t = "a"
  /\ LET v == JV("a", Last(istack).items, Null)
         arr_ctx == Last(container_stack).ctx
         cs1 == Pop(container_stack)
         rows == EndArrayRows(arr_ctx, frames)
         ds1 == IF EndArrayEmits(arr_ctx) THEN PopDir(dir_stack, arr_ctx.frame)
                ELSE dir_stack
     IN /\ istack' = Complete(Pop(istack), v)
        /\ doc' = IF Len(istack) = 1 THEN <<v>> ELSE doc
        /\ out' = out \o rows
        /\ emitLog' = Log("end_array", rows, arr_ctx.frame)
        /\ dir_stack' = ds1
        /\ frames' = IF EndArrayEmits(arr_ctx)
                     THEN FoldItemCount(frames, ds1, arr_ctx.frame)
                     ELSE frames
        /\ container_stack' = BumpIndex(cs1)
  /\ nev' = nev + 1
  /\ UNCHANGED <<pc, class>>

EndMap ==
  /\ pc = "running" /\ Scripted("end_map")
  /\ UNCHANGED wvars
  /\ istack # <<>> /\ Last(istack).t = "o" /\ Last(istack).pkey = NoKey
  /\ LET v == JV("o", Last(istack).items, Null)
         data == Last(container_stack).ctx.data
         cs1 == Pop(container_stack)
         inArray == cs1 # <<>> /\ Last(cs1).type = "array"
         parent == TopFrame(dir_stack, frames)
     IN /\ istack' = Complete(Pop(istack), v)
        /\ doc' = IF Len(istack) = 1 THEN <<v>> ELSE doc
        /\ nev' = nev + 1
        /\ class' = class
        /\ IF inArray
           THEN LET arr_ctx == [Last(cs1).ctx EXCEPT
                                  !.type = Classify(Last(cs1).ctx, data)]
                    cs2 == [cs1 EXCEPT ![Len(cs1)].ctx = arr_ctx]
                IN IF arr_ctx.type # "dir"
                   THEN /\ container_stack' = BumpIndex(cs2)
                        /\ UNCHANGED <<pc, dir_stack, frames, out, emitLog>>
                   ELSE IF IsHead(arr_ctx)
                   THEN IF MakeDirFrameRaises(data, parent)
                        THEN /\ pc' = "raised"
                             /\ container_stack' = cs2
                             /\ UNCHANGED <<dir_stack, frames, out, emitLog>>
                        ELSE LET frame == _make_dir_frame(data, parent)
                                 fid == Len(frames) + 1
                                 rows == EndMapHeadRows(frame)
                             IN /\ frames' = Append(frames, frame)
                                /\ dir_stack' = Append(dir_stack, fid)
                                /\ container_stack' =
                                     BumpIndex([cs2 EXCEPT ![Len(cs2)].ctx.frame = fid])
                                /\ out' = out \o rows
                                /\ emitLog' = Log("end_map", rows, fid)
                                /\ pc' = pc
                   ELSE IF MakeFileRowRaises(data, parent)
                        THEN /\ pc' = "raised"
                             /\ container_stack' = cs2
                             /\ UNCHANGED <<dir_stack, frames, out, emitLog>>
                        ELSE LET row == _make_file_row(data, parent)
                             IN /\ out' = out \o row
                                /\ emitLog' = Log("end_map", row, None)
                                /\ frames' = IF row # <<>>
                                             THEN CountFile(frames, dir_stack)
                                             ELSE frames
                                /\ container_stack' = BumpIndex(cs2)
                                /\ UNCHANGED <<pc, dir_stack>>
           ELSE IF MakeFileRowRaises(data, <<>>)
                THEN /\ pc' = "raised"
                     /\ container_stack' = cs1
                     /\ UNCHANGED <<dir_stack, frames, out, emitLog>>
                ELSE LET row == _make_file_row(data, <<>>)
                     IN /\ out' = out \o row
                        /\ emitLog' = Log("end_map", row, None)
                        /\ container_stack' = cs1
                        /\ UNCHANGED <<pc, dir_stack, frames>>

\* variant: the open directories are flushed when the token source raises
RowsOnErrorFlush(ds, frs) ==
  [i \in 1..Len(ds) |-> _dir_frame_to_row(frs[ds[Len(ds) + 1 - i]])]

\* the rows yielded when the token source raises: the exception leaves the
\* for loop and the generator, nothing runs after it
RowsOnError(ds, frs) == <<>>

\* the token source raises (malformed or truncated JSON, trailing data)
ParseError ==
  /\ pc = "running"
  /\ UNCHANGED wvars
  /\ pc' = "failed"
  /\ out' = out \o RowsOnError(dir_stack, frames)
  /\ emitLog' = Log("error", RowsOnError(dir_stack, frames), None)
  /\ UNCHANGED <<container_stack, dir_stack, frames, istack, doc, nev, class>>

\* the token source is exhausted after a complete document
EndOfInput ==
  /\ pc = "running"
  /\ UNCHANGED wvars
  /\ doc # <<>>
  /\ pc' = "done"
  /\ UNCHANGED <<container_stack, dir_stack, frames, out, emitLog, istack, doc,
                 nev, class>>

Next ==
  \/ StartArray
  \/ EndArray
  \/ StartMap
  \/ MapKey
  \/ Scalar
  \/ EndMap
  \/ ParseError
  \/ EndOfInput

\* ---------------------------------------------------------------- writer
svars == <<pc, container_stack, dir_stack, frames, out, emitLog, istack, doc,
           nev, class>>

\* the rows an iterator may hand to write_batched_parquet
RowPool ==
  {_make_file_row(("name" :> Str(<<"a">>)), <<>>)[1],
   _make_file_row(("name" :> Str(<<"b">>)) @@ ("asize" :> 1), <<>>)[1],
   _dir_frame_to_row(_make_dir_frame(<<>>, <<>>))}

\* the iterator is any finite row sequence that ends normally or raises
InitWriter ==
  /\ InitWriterState
  /\ pc \in {"done", "failed"}
  /\ out \in UNION {[1..n -> RowPool] : n \in 0..MaxRows}
  /\ container_stack = <<>> /\ dir_stack = <<>> /\ frames = <<>>
  /\ emitLog = <<>> /\ istack = <<>> /\ doc = <<>> /\ nev = 0
  /\ class = "rows"

\* variant: the batch is flushed only when it exceeds BATCH_SIZE
FlushDueLate(b) == Len(b) > BATCH_SIZE

\* if len(batch) >= BATCH_SIZE
FlushDue(b) == Len(b) >= BATCH_SIZE

\* if writer is None: writer = pq.ParquetWriter(...); writer.write_table(table)
WriteTable(f, w, b) ==
  [f EXCEPT !.opens = IF w = "None" THEN @ + 1 ELSE @,
            !.tables = Append(@, b)]

\* for row in rows: one pass of the loop body
ConsumeRow ==
  /\ wpc = "loop" /\ consumed < Len(out)
  /\ LET b == Append(batch, out[consumed + 1])
     IN IF FlushDue(b)
        THEN /\ file' = WriteTable(file, writer, b)
             /\ writer' = "open"
             /\ batch' = <<>>
        ELSE /\ batch' = b
             /\ UNCHANGED <<writer, file>>
  /\ total_rows' = total_rows + 1
  /\ consumed' = consumed + 1
  /\ UNCHANGED <<wpc, svars>>

\* the iterator is exhausted: the remaining rows are written, the writer is
\* closed if there is one, total_rows is returned
Finish ==
  /\ wpc = "loop" /\ consumed = Len(out) /\ pc = "done"
  /\ LET f1 == IF batch # <<>> THEN WriteTable(file, writer, batch) ELSE file
         w1 == IF batch # <<>> THEN "open" ELSE writer
     IN /\ file' = IF w1 # "None" THEN [f1 EXCEPT !.closes = @ + 1] ELSE f1
        /\ writer' = IF w1 # "None" THEN "closed" ELSE w1
  /\ wpc' = "returned"
  /\ UNCHANGED <<batch, total_rows, consumed, svars>>

\* the iterator raises: the exception leaves write_batched_parquet
SourceRaises ==
  /\ wpc = "loop" /\ consumed = Len(out) /\ pc \in {"failed", "raised"}
  /\ wpc' = "aborted"
  /\ UNCHANGED <<writer, batch, total_rows, consumed, file, svars>>

NextWriter ==
  \/ ConsumeRow
  \/ Finish
  \/ SourceRaises

SpecWriter == InitWriter /\ [][NextWriter]_vars

Spec == Init /\ [][Next]_vars
SpecMeta == InitMeta /\ [][Next]_vars
SpecScenario == InitScenario /\ [][Next]_vars
SpecWrap == InitWrap /\ [][Next]_vars

\* ---------------------------------------------------------------- claims
Rows == DOMAIN out
OpenFrames == {dir_stack[i] : i \in DOMAIN dir_stack}

\* the parent value p leads to the path q through at most n parent links,
\* each matched against the path of an emitted row
RECURSIVE Linked(_, _, _)
Linked(p, q, n) ==
  \/ p = q
  \/ /\ n > 0
     /\ \E y \in Rows : out[y].path = p /\ Linked(out[y].parent, q, n - 1)

PostOrderByPath ==
  \A r \in Rows : \A x \in Rows :
    (out[r].is_dir /\ Linked(out[x].parent, out[r].path, Len(out))) => x < r

\* no two emitted rows, and no emitted row and open directory, and no two
\* open directories, have the same path
DistinctPaths ==
  /\ \A x, y \in Rows : x # y => out[x].path # out[y].path
  /\ \A f \in OpenFrames : \A x \in Rows : frames[f].path # out[x].path
  /\ \A f, g \in OpenFrames : f # g => frames[f].path # frames[g].path

\* C1 as stated: every row linked to a directory row R by parent links comes
\* strictly before R, for every input
C1_Original == PostOrderByPath

\* C1 amended: when the paths of the entries are pairwise distinct, every row
\* whose parent is, directly or through parent links, the path of a directory
\* row R appears strictly before R in the output
C1_PostOrder == DistinctPaths => PostOrderByPath

\* a subdirectory row with a file row before it and its parent row after it
C1_Witness ==
  /\ DistinctPaths
  /\ \E r, d, x \in Rows :
       /\ out[r].is_dir /\ out[d].is_dir /\ ~out[x].is_dir
       /\ out[x].parent = out[d].path /\ out[d].parent = out[r].path
       /\ x < d /\ d < r

\* item_count recomputed from the parent links of the flat row list
RECURSIVE SumRows(_, _)
SumRows(S, path) ==
  IF S = {} THEN 0
  ELSE LET x == CHOOSE x \in S : TRUE
           c == IF out[x].parent # path THEN 0
                ELSE IF out[x].is_dir THEN out[x].item_count ELSE 1
       IN c + SumRows(S \ {x}, path)

ItemCountByLinks ==
  \A d \in Rows : out[d].is_dir => out[d].item_count = SumRows(Rows, out[d].path)

DirRows == {x \in Rows : out[x].is_dir}

DistinctDirPaths ==
  /\ \A x, y \in DirRows : x # y => out[x].path # out[y].path
  /\ \A f \in OpenFrames : \A x \in DirRows : frames[f].path # out[x].path
  /\ \A f, g \in OpenFrames : f # g => frames[f].path # frames[g].path

\* C2 as stated: the item_count of every directory row is the sum over the
\* rows whose parent is its path, for every input
C2_Original == ItemCountByLinks

\* C2 amended: when the paths of the directories are pairwise distinct, the
\* item_count of every directory row is the sum, over the rows whose parent
\* is its path, of 1 per file row and item_count per directory row
C2_ItemCount == DistinctDirPaths => ItemCountByLinks

\* a directory whose count comes from a subdirectory's count
C2_Witness ==
  /\ DistinctDirPaths
  /\ \E r, d \in Rows :
       /\ out[r].is_dir /\ out[d].is_dir
       /\ out[d].parent = out[r].path
       /\ out[d].item_count = 1 /\ out[r].item_count = 1

\* ------------------------------------------------ the document as a tree
Recognized == {"name", "asize", "dsize"}

\* the pairs of an object whose key is k and whose value is a scalar
ScalarPairs(obj, k) ==
  {i \in DOMAIN obj.items : obj.items[i].k = k /\ obj.items[i].v.t = "s"}

\* an object that carries at least one of name, asize, dsize
HasMetadata(v) ==
  v.t = "o" /\ \E k \in Recognized : ScalarPairs(v, k) # {}

\* a directory list: an array whose first element is a metadata head
IsDirList(v) == v.t = "a" /\ v.items # <<>> /\ HasMetadata(v.items[1])

\* the name an object carries (the last one when the key is repeated)
NameOf(obj) ==
  LET S == ScalarPairs(obj, "name")
  IN IF S = {} THEN Null
     ELSE obj.items[CHOOSE i \in S : \A j \in S : j <= i].v.sv

HasName(obj) == NameOf(obj) # Null /\ NameOf(obj) # Str(<<>>)

\* the values directly inside a container
Children(v) ==
  IF v.t = "a" THEN v.items
  ELSE IF v.t = "o" THEN [i \in DOMAIN v.items |-> v.items[i].v]
  ELSE <<>>

RECURSIVE NumDirLists(_)
NumDirLists(v) ==
  LET RECURSIVE Sum(_)
      Sum(i) == IF i = 0 THEN 0 ELSE NumDirLists(Children(v)[i]) + Sum(i - 1)
  IN (IF IsDirList(v) THEN 1 ELSE 0) + Sum(Len(Children(v)))

\* file objects: the non-head object elements of a directory list (the bare
\* top-level object is counted by NumExpectedRows)
RECURSIVE NumNamedFiles(_)
NumNamedFiles(v) ==
  LET own(i) == IF IsDirList(v) /\ i > 1 /\ v.items[i].t = "o" /\ HasName(v.items[i])
                THEN 1 ELSE 0
      RECURSIVE Sum(_)
      Sum(i) == IF i = 0 THEN 0
                ELSE own(i) + NumNamedFiles(Children(v)[i]) + Sum(i - 1)
  IN Sum(Len(Children(v)))

NumExpectedRows(v) ==
  NumDirLists(v) + NumNamedFiles(v) + (IF v.t = "o" /\ HasName(v) THEN 1 ELSE 0)

\* C3: when the whole document has been consumed, the number of rows emitted
\* is the number of directory lists with a metadata head plus the number of
\* file objects with a non-empty name
C3_RowCount == pc = "done" => Len(out) = NumExpectedRows(doc[1])

\* ------------------------------------------------ emission of directories
EmittedFrames == {emitLog[i].fid : i \in DirRows}

\* C4: a directory row is yielded only at an end_array event, no frame is
\* yielded twice, every frame is either still open or yielded, a yielded
\* frame keeps the item_count of its row, and at the end of the document
\* there is one directory row per directory list
C4_EmitOnce ==
  /\ \A i \in DirRows : emitLog[i].ev = "end_array"
  /\ \A i, j \in DirRows : emitLog[i].fid = emitLog[j].fid => i = j
  /\ \A i \in DirRows : out[i].item_count = frames[emitLog[i].fid].item_count
  /\ pc # "raised" =>
       /\ EmittedFrames \cup OpenFrames = DOMAIN frames
       /\ EmittedFrames \cap OpenFrames = {}
  /\ pc = "done" => Cardinality(DirRows) = NumDirLists(doc[1])

\* a directory row with a non-zero count was yielded and events followed
C4_Witness ==
  \E i, j \in DirRows :
    i < j /\ out[i].item_count > 0 /\ out[j].item_count > 0 /\ emitLog[i].n < nev

\* C5: every event is one step of stream_nodes and yields zero or one row,
\* appended to the rows yielded before
C5_OneRowPerEvent ==
  [][/\ nev' \in {nev, nev + 1}
     /\ nev' = nev => out' = out
     /\ Len(out') \in {Len(out), Len(out) + 1}
     /\ SubSeq(out', 1, Len(out)) = out]_vars

\* every kind of event has been consumed, some with a row and some without
C5_Witness ==
  /\ pc = "done" /\ Len(out) >= 2 /\ nev > Len(out)
  /\ \E i, j \in Rows : emitLog[i].ev = "end_array" /\ emitLog[j].ev = "end_map"

\* C6: container_stack holds one entry per open JSON container, dir_stack at
\* most one per open array, and the only frames held are those of directory
\* arrays that are still open
ArrayCtxs == {i \in DOMAIN container_stack : container_stack[i].type = "array"}
HeldFrames ==
  OpenFrames \cup ({container_stack[i].ctx.frame : i \in ArrayCtxs} \ {None})

C6_BoundedByDepth ==
  /\ Len(container_stack) = Len(istack)
  /\ \A i \in DOMAIN container_stack :
       (container_stack[i].type = "array") = (istack[i].t = "a")
  /\ Len(dir_stack) <= Cardinality(ArrayCtxs)
  /\ HeldFrames \cap EmittedFrames = {}
  /\ OpenFrames \subseteq {container_stack[i].ctx.frame : i \in ArrayCtxs}

\* rows were emitted and directories closed, and fewer frames are held than
\* were created
C6_Witness ==
  /\ Len(out) >= 2 /\ Cardinality(EmittedFrames) >= 1
  /\ Len(dir_stack) = 1 /\ Len(container_stack) = 1

\* C7: stream_nodes never raises, whatever scalars the document carries
\* under name, asize and dsize
C7_NeverRaises == pc # "raised"

\* C8: when the object that closes is a non-head element of a directory
\* list, then with a name that is absent, null or empty no row is yielded and
\* the count of the innermost open frame is unchanged, and with a non-empty
\* string name exactly one row, carrying that name, is yielded and that
\* count grows by exactly 1
FileCloses ==
  /\ pc = "running" /\ Len(istack) >= 2 /\ Len(istack') < Len(istack)
  /\ Last(istack).t = "o"
  /\ LET arr == istack[Len(istack) - 1]
     IN arr.t = "a" /\ arr.items # <<>> /\ HasMetadata(arr.items[1])

ClosingObject == JV("o", Last(istack).items, Null)

C8_FileCount ==
  [][FileCloses =>
       LET name == NameOf(ClosingObject)
           top == Last(dir_stack)
       IN /\ dir_stack # <<>> /\ dir_stack' = dir_stack
          /\ (name = Null \/ name = Str(<<>>)) =>
               /\ out' = out
               /\ frames'[top].item_count = frames[top].item_count
          /\ (name.k = "str" /\ name.s # <<>>) =>
               /\ Len(out') = Len(out) + 1
               /\ Last(out').name = name /\ ~Last(out').is_dir
               /\ frames'[top].item_count = frames[top].item_count + 1]_vars

\* a directory closed with count 1 after a nameless file and a named file
C8_Witness ==
  /\ pc = "done" /\ doc[1].t = "a" /\ Len(doc[1].items) = 3
  /\ \A i \in 1..3 : doc[1].items[i].t = "o"
  /\ HasMetadata(doc[1].items[1])
  /\ \E i, j \in 2..3 : ~HasName(doc[1].items[i]) /\ HasName(doc[1].items[j])
  /\ Len(out) = 2 /\ out[2].item_count = 1

\* C9: every path of a row or an open frame starts with the separator and
\* has no doubled separator; _build_path("", "") = "/" and
\* _build_path("/a", "b") = "/a/b"
WellFormedPath(p) ==
  /\ p # <<>> /\ p[1] = Sep
  /\ \A i \in 1..(Len(p) - 1) : ~(p[i] = Sep /\ p[i + 1] = Sep)

C9_PathWellFormed ==
  /\ \A x \in Rows : WellFormedPath(out[x].path)
  /\ \A f \in DOMAIN frames : WellFormedPath(frames[f].path)
  /\ _build_path(<<>>, Str(<<>>)) = <<Sep>>
  /\ _build_path(<<Sep, "a">>, Str(<<"b">>)) = <<Sep, "a", Sep, "b">>

\* rows at depth 2 and rows below a root with an empty name
C9_Witness ==
  /\ \E x \in Rows : out[x].depth = 2 /\ Len(out[x].path) >= 4
  /\ \E x \in Rows : out[x].parent = <<Sep>> /\ Len(out[x].path) = 2

\* C10: the step in which the token source raises yields no row, and
\* nothing is yielded after it
C10_NoRowsAfterFailure ==
  [][(pc' = "failed") => (out' = out /\ emitLog' = emitLog)]_vars

\* the token source has failed with rows yielded and directories open
C10_Witness == pc = "failed" /\ out # <<>> /\ Len(dir_stack) >= 2

\* ------------------------------------------------ size coercion
\* the scalar an object carries under key k (Null when it carries none)
FieldOf(obj, k) ==
  LET S == ScalarPairs(obj, k)
  IN IF S = {} THEN Null
     ELSE obj.items[CHOOSE i \in S : \A j \in S : j <= i].v.sv

\* the cases C11 speaks of: a number, or a missing, null or non-numeric
\* string field
SizeCovered(v) == v.k \in {"num", "null"} \/ (v.k = "str" /\ ~IsIntLiteral(v.s))
SizeExpected(v) == IF v.k = "num" THEN v.n ELSE 0

\* the object a row yielded by this step is built from: the object that
\* closes, or the metadata head of the array that closes
RowYielded == pc = "running" /\ istack # <<>> /\ Len(out') = Len(out) + 1
RowSource ==
  IF Last(istack).t = "o" THEN ClosingObject ELSE Last(istack).items[1]

\* C11: the size and usage of a yielded row are the integer value of the
\* entry's asize and dsize when these are numbers, and 0 when the field is
\* missing, null or a non-numeric string; coercing a coerced value returns it
C11_SizeCoercion ==
  [][/\ RowYielded =>
          /\ SizeCovered(FieldOf(RowSource, "asize")) =>
               Last(out').size = SizeExpected(FieldOf(RowSource, "asize"))
          /\ SizeCovered(FieldOf(RowSource, "dsize")) =>
               Last(out').usage = SizeExpected(FieldOf(RowSource, "dsize"))
     /\ \A v \in SizeVals \cup NameVals :
          _coerce_int(Num(_coerce_int(v))) = _coerce_int(v)]_vars

\* a file row built from a numeric asize and a non-numeric string dsize
C11_Witness ==
  /\ pc = "done" /\ doc[1].t = "o" /\ HasName(doc[1])
  /\ FieldOf(doc[1], "asize") = Num(2)
  /\ FieldOf(doc[1], "dsize") = Str(<<"a", "b", "c">>)
  /\ Len(out) = 1 /\ out[1].size = 2 /\ out[1].usage = 0

\* ------------------------------------------------ end-to-end scenario 1
RowIs(i, name, isDir, size, count) ==
  /\ out[i].name = Str(name) /\ out[i].is_dir = isDir
  /\ out[i].size = size /\ out[i].item_count = count

\* C12: the scenario document yields exactly four rows, in this order: file
\* a.txt (size 10), file b.txt (size 20), directory sub (item_count 1, size
\* 20), directory root (item_count 2, size 100); the scalar 1 and the object
\* {} at the head of the wrapper array yield nothing
C12_Scenario1 ==
  /\ \A i \in Rows : emitLog[i].n > 4
  /\ pc = "done" =>
       /\ Len(out) = 4
       /\ RowIs(1, NameA, FALSE, 10, 0)
       /\ RowIs(2, NameB, FALSE, 20, 0)
       /\ RowIs(3, NameSub, TRUE, 20, 1)
       /\ RowIs(4, NameRoot, TRUE, 100, 2)

\* the scenario document itself has been consumed to its end
C12_Witness ==
  /\ pc = "done" /\ doc = <<Scenario1Doc>> /\ nev = Len(Script)
  /\ Len(out) = 4 /\ out[4].usage = 50 /\ out[4].path = <<Sep>> \o NameRoot

\* ------------------------------------------------ position of file rows
\* C13: an end_map event yields a row only when the closed object is a
\* non-head element directly inside a directory array, or the bare top-level
\* object
C13_FileRowPosition ==
  [][(pc = "running" /\ istack # <<>> /\ Last(istack).t = "o"
        /\ Len(out') > Len(out))
       => (Len(istack) = 1 \/ FileCloses)]_vars

\* ------------------------------------------------ array classification
\* the kind an open array must have, from the elements delivered so far
KindByFirst(arr) ==
  IF arr.items = <<>> \/ arr.items[1].t = "a" THEN "unknown"
  ELSE IF HasMetadata(arr.items[1]) THEN "dir"
  ELSE "top"

ClassifiedByFirst ==
  \A i \in ArrayCtxs : container_stack[i].ctx.type = KindByFirst(istack[i])

\* the arrays that stay open over a step
StayOpen ==
  {i \in ArrayCtxs : i <= Len(container_stack') /\ i <= Len(istack')
                     /\ istack'[i].t = "a"
                     /\ ~(i = Len(istack) /\ Len(istack') < Len(istack))}

\* C14: an array leaves the unknown kind only at its first element (index
\* 0): to dir iff that element is an object that recorded one of name, asize,
\* dsize, to top if it is a scalar or an object that recorded none; a kind
\* that is dir or top never changes
C14_Classification ==
  [][/\ ClassifiedByFirst'
     /\ \A i \in StayOpen :
          LET old == container_stack[i].ctx
              new == container_stack'[i].ctx
          IN /\ old.type # "unknown" => new.type = old.type
             /\ new.type # old.type => old.index = 0 /\ istack[i].items = <<>>]_vars

\* an array that was classified dir at its head is still dir two elements
\* later, next to an array left unknown by a nested array
C14_Witness ==
  /\ Len(container_stack) = 1 /\ container_stack[1].type = "array"
  /\ container_stack[1].ctx.type = "dir"
  /\ container_stack[1].ctx.index = 3
  /\ istack[1].items[2].t = "a" /\ istack[1].items[2].items # <<>>
  /\ istack[1].items[2].items[1].t = "a"

\* ------------------------------------------------ parent and depth linkage
LinkedStack ==
  \A i \in DOMAIN dir_stack :
    LET f == frames[dir_stack[i]]
    IN IF i = 1 THEN f.depth = 0 /\ f.parent = <<>>
       ELSE f.depth = i - 1 /\ f.parent = frames[dir_stack[i - 1]].path

\* C15: the bottom frame of dir_stack has depth 0 and parent "", every other
\* frame has the depth of its position and the path of the frame below it as
\* parent, and a file row yielded inside a directory array has the path of
\* the top frame as parent and that frame's depth + 1
C15_ParentLinkage ==
  [][/\ LinkedStack'
     /\ (FileCloses /\ Len(out') > Len(out)) =>
          /\ Last(out').parent = frames[Last(dir_stack)].path
          /\ Last(out').depth = frames[Last(dir_stack)].depth + 1]_vars

\* two frames are open and a file row of the inner directory was yielded
C15_Witness ==
  /\ Len(dir_stack) = 2 /\ out # <<>> /\ ~Last(out).is_dir
  /\ Last(out).depth = 2
  /\ Last(out).parent = frames[dir_stack[2]].path
  /\ frames[dir_stack[2]].parent = frames[dir_stack[1]].path

\* ------------------------------------------------ stack correspondence
\* the frames of the directory array contexts of cs, in stack order
RECURSIVE DirFramesOf(_)
DirFramesOf(cs) ==
  IF cs = <<>> THEN <<>>
  ELSE LET c == Last(cs)
       IN IF c.type = "array" /\ c.ctx.type = "dir" /\ c.ctx.frame # None
          THEN Append(DirFramesOf(Pop(cs)), c.ctx.frame)
          ELSE DirFramesOf(Pop(cs))

DirArrayCloses ==
  /\ pc = "running" /\ istack # <<>> /\ Last(istack).t = "a"
  /\ Len(istack') < Len(istack)
  /\ Last(container_stack).ctx.type = "dir"
  /\ Last(container_stack).ctx.frame # None

\* C16: dir_stack is the sequence of the frames of the directory array
\* contexts on container_stack; when a directory array closes its frame is
\* the top of dir_stack and is popped
C16_StackCorrespondence ==
  [][/\ dir_stack' = DirFramesOf(container_stack')
     /\ DirArrayCloses =>
          /\ dir_stack # <<>>
          /\ Last(dir_stack) = Last(container_stack).ctx.frame
          /\ dir_stack' = Pop(dir_stack)]_vars

\* one directory array has closed and another is open, with a second
\* container on the stack
C16_Witness ==
  /\ Len(dir_stack) = 1 /\ Len(frames) = 2 /\ Len(container_stack) = 2
  /\ Cardinality(DirRows) = 1

\* ------------------------------------------------ end of the stream
AllClosed ==
  /\ container_stack = <<>> /\ dir_stack = <<>>
  /\ EmittedFrames = DOMAIN frames
  /\ nev = Len(Events(doc[1]))

\* C17: stream_nodes does not stop before the end of a well-formed event
\* sequence, and when the sequence is exhausted every event has been
\* consumed, both stacks are empty and every frame created has been yielded
C17_NoEntryOutlives == pc # "raised" /\ (pc = "done" => AllClosed)

\* ------------------------------------------------ wrapper arrays
\* an array whose first element is an array
IsWrapper(arr) == arr.t = "a" /\ arr.items # <<>> /\ arr.items[1].t = "a"

\* an open array that is a directory list whose head is complete
IsOpenDirList(arr) ==
  arr.t = "a" /\ arr.items # <<>> /\ HasMetadata(arr.items[1])

Closes == pc = "running" /\ istack # <<>> /\ Len(istack') < Len(istack)
InWrapper == Len(istack) >= 2 /\ IsWrapper(istack[Len(istack) - 1])

\* the open directory lists that enclose the container on top
Enclosing == {j \in 1..(Len(istack) - 1) : IsOpenDirList(istack[j])}
Innermost == CHOOSE j \in Enclosing : \A h \in Enclosing : h <= j

WrappersUnclassified ==
  \A i \in ArrayCtxs :
    IsWrapper(istack[i]) =>
      container_stack[i].ctx.type = "unknown" /\ container_stack[i].ctx.frame = None

\* C18: an array whose first element is an array stays unknown and has no
\* frame; closing it, or closing an object directly inside it, yields no row;
\* a directory array directly inside it yields its row and adds its
\* item_count to the innermost open directory frame around the wrapper
C18_Wrappers ==
  [][/\ WrappersUnclassified'
     /\ (Closes /\ IsWrapper(Last(istack))) => out' = out
     /\ (Closes /\ InWrapper /\ Last(istack).t = "o") => out' = out
     /\ (Closes /\ InWrapper /\ IsOpenDirList(Last(istack))) =>
          /\ Len(out') = Len(out) + 1 /\ Last(out').is_dir
          /\ Enclosing # {} =>
               LET f == container_stack[Innermost].ctx.frame
               IN /\ f # None /\ dir_stack' # <<>> /\ Last(dir_stack') = f
                  /\ frames'[f].item_count =
                       frames[f].item_count + Last(out').item_count]_vars

\* a directory with one file closed inside a wrapper that is an element of
\* an open directory, whose count became 1
C18_Witness ==
  /\ Len(istack) = 2 /\ IsOpenDirList(istack[1]) /\ IsWrapper(istack[2])
  /\ out # <<>> /\ Last(out).is_dir /\ Last(out).item_count = 1
  /\ Len(dir_stack) = 1 /\ frames[dir_stack[1]].item_count = 1
  /\ Last(out).parent = frames[dir_stack[1]].path

\* ------------------------------------------------ the row sink
RECURSIVE Flatten(_)
Flatten(ts) == IF ts = <<>> THEN <<>> ELSE Flatten(Pop(ts)) \o Last(ts)

\* C19: while the loop runs, the tables written, in write order, followed by
\* the batch in memory are the rows consumed so far, in order; no batch holds
\* more than BATCH_SIZE rows; on return every row has been written, in order,
\* and the value returned is the number of rows
C19_OrderPreserved ==
  /\ wpc # "returned" =>
       Flatten(file.tables) \o batch = SubSeq(out, 1, consumed)
  /\ Len(batch) <= BATCH_SIZE
  /\ \A i \in DOMAIN file.tables : Len(file.tables[i]) <= BATCH_SIZE
  /\ total_rows = consumed
  /\ wpc = "returned" => (Flatten(file.tables) = out /\ total_rows = Len(out))

\* full batches and a remainder have been written
C19_Witness ==
  /\ wpc = "returned" /\ Len(file.tables) >= 2
  /\ Len(file.tables[1]) = BATCH_SIZE
  /\ Len(Last(file.tables)) < BATCH_SIZE
  /\ out[1] # out[2]

\* C20: when write_batched_parquet returns, the output storage has been
\* opened exactly once and closed exactly once
C20_Finalized == wpc = "returned" => (file.opens = 1 /\ file.closes = 1)

====
